---- MODULE Spec2Model ----
(***************************************************************************)
(* The three benchmark scripts of pyhyeon: benchmark_runner.py,            *)
(* compare_jit.py and detailed_benchmark.py.  Each script runs a fixed     *)
(* list of two test cases; for each it times repeated runs of the external *)
(* program pyhc.exe, summarises the successful samples and prints a        *)
(* report.  detailed_benchmark.py also estimates the interpreter/JIT split *)
(* and compares the per-iteration cost of its two test cases.              *)
(*                                                                         *)
(* Elapsed times are whole clock ticks; the arithmetic the scripts do on   *)
(* them (sum/len, avg/iterations*1000, ...) is modelled with exact         *)
(* rationals <<numerator, denominator>> in lowest terms.  A Python None is *)
(* the empty tuple.                                                        *)
(***************************************************************************)
EXTENDS Integers, Sequences, FiniteSets, TLC

VARIABLES
    prog,       \* which script is running
    tests,      \* the script's configured test cases
    pc,         \* position of the script
    tc,         \* index (1-based) of the test case being run
    i,          \* loop variable of the trial loop
    times,      \* the list `times` of the running run_test/run_benchmark call
    trials,     \* history: every invocation of the running call, <<rc, elapsed>>
    children,   \* number of child processes started and not yet reaped
    spawned,    \* history: child processes spawned, per test case
    succeeded,  \* history: trials that exited 0, per test case
    started,    \* history: test cases whose trials were started, in order
    ret,        \* value returned by the call, per test case
    results,    \* detailed_benchmark.py: the list `results`
    splits,     \* detailed_benchmark.py: interpreter/JIT split printed, per test case
    analysis,   \* detailed_benchmark.py: the comparison of the Analysis block
    out         \* the lines printed so far

vars == <<prog, tests, pc, tc, i, times, trials, children, spawned, succeeded,
          started, ret, results, splits, analysis, out>>

-----------------------------------------------------------------------------
(* Bounds of the model *)

\* the largest elapsed time, in clock ticks, a trial may take
MaxElapsed == 11

\* elapsed times a trial may take, always at least one tick (a child started
\* through the shell never returns within the clock's resolution): a short
\* run, and two long ones that are ten times as long and more (the second
\* test case has ten times the iterations of the first)
ElapsedChoices == {1, 10, MaxElapsed}

\* exit codes of the child process: 0 is success
ReturnCodes == {0, 1}

\* iteration counts tried for the test list of detailed_benchmark.py
UnitChoices == {0, 1000, 10000, 100000}

\* epsilons tried for the three-way verdict, as rationals
EpsilonChoices == {<<0, 1>>, <<1, 1000>>}

-----------------------------------------------------------------------------
(* Values *)

None == <<>>

BR == "benchmark_runner"
CJ == "compare_jit"
DB == "detailed_benchmark"
Programs == {BR, CJ, DB}

-----------------------------------------------------------------------------
(* Exact rational arithmetic *)

Abs(x) == IF x < 0 THEN -x ELSE x

RECURSIVE GCD(_, _)
GCD(a, b) == IF b = 0 THEN a ELSE GCD(b, a % b)

\* n/d in lowest terms with a positive denominator (d # 0)
Rat(n, d) ==
    LET g == GCD(Abs(n), Abs(d))
        s == IF d < 0 THEN -1 ELSE 1
    IN  <<(s * n) \div g, (s * d) \div g>>

FromInt(n) == <<n, 1>>

\* sums and products are reduced before they are multiplied out, so that the
\* intermediate integers stay small
LCM(a, b) == (a \div GCD(a, b)) * b
RAdd(a, b) ==
    LET l == LCM(a[2], b[2])
    IN  Rat(a[1] * (l \div a[2]) + b[1] * (l \div b[2]), l)
RSub(a, b) == RAdd(a, <<-b[1], b[2]>>)
RMul(a, b) ==
    LET g1 == GCD(Abs(a[1]), b[2])
        g2 == GCD(Abs(b[1]), a[2])
    IN  Rat((a[1] \div g1) * (b[1] \div g2), (a[2] \div g2) * (b[2] \div g1))
\* b # 0
RDiv(a, b) == RMul(a, IF b[1] < 0 THEN <<-b[2], -b[1]>> ELSE <<b[2], b[1]>>)
RLess(a, b) == a[1] * b[2] < b[1] * a[2]
RLeq(a, b) == a[1] * b[2] =< b[1] * a[2]
IsZero(a) == a[1] = 0

-----------------------------------------------------------------------------
(* Python built-ins on lists *)

RECURSIVE SumSeq(_)
SumSeq(s) == IF s = <<>> THEN 0 ELSE Head(s) + SumSeq(Tail(s))

Range(s) == {s[k] : k \in 1..Len(s)}
MinSeq(s) == CHOOSE x \in Range(s) : \A y \in Range(s) : x =< y
MaxSeq(s) == CHOOSE x \in Range(s) : \A y \in Range(s) : x >= y

\* `if avg:` -- None and 0.0 are both false
Truthy(v) == v # None /\ ~IsZero(v)

-----------------------------------------------------------------------------
(* Configuration of the scripts *)

\* the test cases each script runs, in order
ConfiguredTests(p) ==
    IF p = DB
    THEN << [file |-> "benchmark_arithmetic.pyh", name |-> "10K iterations",
             iterations |-> 10000],
            [file |-> "benchmark_long.pyh", name |-> "100K iterations",
             iterations |-> 100000] >>
    ELSE << [file |-> "benchmark_arithmetic.pyh"], [file |-> "jit_simple.pyh"] >>

\* number of trials per test case: iterations=3, range(5), range(5)
RepeatCount(p) == IF p = BR THEN 3 ELSE 5

\* the JIT threshold the split is estimated with
Threshold == 1000

\* subprocess.run is called with check=True, so a non-zero exit raises
CheckReturnCodeSet == TRUE

\* subprocess.run is called without check=True: a non-zero exit does not raise
CheckReturnCode == FALSE

\* a failed trial makes run_test return None at once; run_benchmark goes on
AbortsOnFailure(p) == p \in {CJ, DB}

\* the loop variable is advanced only after a successful trial
RetryFailedTrial(n, rc) == IF rc = 0 THEN n + 1 ELSE n

\* for i in range(...): the loop variable advances after every trial
NextTrial(n, rc) == n + 1

\* if result.returncode == 0: times.append(elapsed)
RecordSample(ts, rc, elapsed) == IF rc = 0 THEN Append(ts, elapsed) ELSE ts

-----------------------------------------------------------------------------
(* Statistics *)

NoSummary == [average |-> None, min |-> None, max |-> None]

\* sum(times) / len(times), times not empty
Mean(ts) == RDiv(FromInt(SumSeq(ts)), FromInt(Len(ts)))

\* what the call computes from `times` once the loop has run to its end
Summarise(p, ts) ==
    IF p = DB
    THEN [average |-> Mean(ts), min |-> None, max |-> None]
    ELSE IF ts # <<>>
         THEN [average |-> Mean(ts), min |-> FromInt(MinSeq(ts)),
               max |-> FromInt(MaxSeq(ts))]
         ELSE NoSummary

-----------------------------------------------------------------------------
(* detailed_benchmark.py: per-iteration cost, split, comparison *)

\* the interpreter/JIT split is estimated only above the threshold
Split(iterations) ==
    IF iterations > Threshold
    THEN << [interp_iters |-> Threshold, jit_iters |-> iterations - Threshold] >>
    ELSE None

\* if avg: results.append((name, iterations, avg))
Collect(res, t, iterations, avg) ==
    IF Truthy(avg)
    THEN Append(res, [case |-> t, iterations |-> iterations, avg |-> avg])
    ELSE res

\* both sides are taken from results[0]
SameOperandTwice(res) == <<res[1], res[1]>>

\* name1, iters1, time1 = results[0]; name2, iters2, time2 = results[1]
AnalysisOperands(res) == <<res[1], res[2]>>

\* per_iter1 = time1 / iters1 * 1000
PerIter1(time1, iters1) == RMul(RDiv(time1, FromInt(iters1)), FromInt(1000))

\* per_iter2 is left in milliseconds: time2 / iters2
PerIter2Unscaled(time2, iters2) == RDiv(time2, FromInt(iters2))

\* per_iter2 = time2 / iters2 * 1000
PerIter2(time2, iters2) == RMul(RDiv(time2, FromInt(iters2)), FromInt(1000))

\* improvement = ((per_iter1 - per_iter2) / per_iter1) * 100
Improvement(p1, p2) == RMul(RDiv(RSub(p1, p2), p1), FromInt(100))

\* the Analysis block, entered when len(results) >= 2
Compare(res) ==
    LET ops == AnalysisOperands(res)
        p1  == PerIter1(ops[1].avg, ops[1].iterations)
        p2  == PerIter2(ops[2].avg, ops[2].iterations)
    IN  [ a |-> ops[1].case, b |-> ops[2].case,
          time1 |-> ops[1].avg, iters1 |-> ops[1].iterations,
          time2 |-> ops[2].avg, iters2 |-> ops[2].iterations,
          per_iter1 |-> p1, per_iter2 |-> p2,
          verdict |-> IF RLess(p2, p1) THEN "speedup" ELSE "no_improvement",
          improvement |-> IF RLess(p2, p1) THEN Improvement(p1, p2) ELSE None ]

-----------------------------------------------------------------------------
(* The report *)

Line(kind, t) == [kind |-> kind, tc |-> t]

\* printed when a call is made: the section header of the test case
HeaderLines(p, t) == << Line("header", t) >>

\* printed by the loop after a trial
TrialLines(p, t, rc) ==
    IF rc = 0
    THEN IF p = DB THEN <<>> ELSE << Line("trial_ok", t) >>
    ELSE << Line("trial_error", t) >>

\* printed by compare_jit.run_test itself once all trials succeeded
CallLines(p, t, summary) ==
    IF p = CJ /\ summary.average # None THEN << Line("summary", t) >> ELSE <<>>

\* printed by the script after the call has returned
SectionLines(p, t, avg, iterations) ==
    IF p = CJ \/ ~Truthy(avg)
    THEN <<>>
    ELSE IF p = BR
    THEN << Line("summary", t) >>
    ELSE IF iterations = 0
    THEN << Line("summary", t) >>
    ELSE << Line("summary", t), Line("per_unit", t) >>
         \o (IF Split(iterations) # None THEN << Line("split", t) >> ELSE <<>>)

-----------------------------------------------------------------------------
(* Initial states *)

InitRun ==
    /\ pc = "call"
    /\ tc = 1
    /\ i = 0
    /\ times = <<>>
    /\ trials = <<>>
    /\ children = 0
    /\ spawned = [t \in 1..Len(tests) |-> 0]
    /\ succeeded = [t \in 1..Len(tests) |-> 0]
    /\ started = <<>>
    /\ ret = [t \in 1..Len(tests) |-> NoSummary]
    /\ results = <<>>
    /\ splits = [t \in 1..Len(tests) |-> None]
    /\ analysis = None
    /\ out = <<>>

\* one of the three scripts is started, with the test list it is written with
Init ==
    /\ prog \in Programs
    /\ tests = ConfiguredTests(prog)
    /\ InitRun

\* as Init, with the iteration counts of detailed_benchmark.py's test list
\* drawn from UnitChoices
InitUnits ==
    /\ prog \in Programs
    /\ \/ /\ prog # DB
          /\ tests = ConfiguredTests(prog)
       \/ /\ prog = DB
          /\ \E u1 \in UnitChoices, u2 \in UnitChoices :
                tests = << [ConfiguredTests(DB)[1] EXCEPT !.iterations = u1],
                           [ConfiguredTests(DB)[2] EXCEPT !.iterations = u2] >>
    /\ InitRun

-----------------------------------------------------------------------------
(* Actions *)

\* the script prints the header of test case tc and calls run_test /
\* run_benchmark, which starts with an empty `times`
Call ==
    /\ pc = "call"
    /\ pc' = "loop"
    /\ i' = 0
    /\ times' = <<>>
    /\ trials' = <<>>
    /\ started' = Append(started, tc)
    /\ out' = out \o HeaderLines(prog, tc)
    /\ UNCHANGED <<prog, tests, tc, children, spawned, succeeded, ret, results,
                   splits, analysis>>

\* the loop starts a trial: the clock is read and subprocess.run spawns the
\* child and blocks
Spawn ==
    /\ pc = "loop"
    /\ i < RepeatCount(prog)
    /\ pc' = "wait"
    /\ children' = children + 1
    /\ spawned' = [spawned EXCEPT ![tc] = @ + 1]
    /\ UNCHANGED <<prog, tests, tc, i, times, trials, succeeded, started, ret,
                   results, splits, analysis, out>>

\* the child exits with code rc after `elapsed` ticks: subprocess.run returns,
\* the clock is read again and the rest of the loop body runs
ChildExit ==
    /\ pc = "wait"
    /\ \E rc \in ReturnCodes, elapsed \in ElapsedChoices :
        /\ children' = children - 1
        /\ trials' = Append(trials, [rc |-> rc, elapsed |-> elapsed])
        /\ times' = RecordSample(times, rc, elapsed)
        /\ succeeded' = [succeeded EXCEPT ![tc] = IF rc = 0 THEN @ + 1 ELSE @]
        /\ IF rc # 0 /\ CheckReturnCode
           THEN /\ pc' = "crashed"
                /\ UNCHANGED <<i, ret, out>>
           ELSE /\ out' = out \o TrialLines(prog, tc, rc)
                /\ IF rc # 0 /\ AbortsOnFailure(prog)
                   THEN /\ ret' = [ret EXCEPT ![tc] = NoSummary]
                        /\ pc' = "returned"
                        /\ UNCHANGED i
                   ELSE /\ i' = NextTrial(i, rc)
                        /\ pc' = "loop"
                        /\ UNCHANGED ret
    /\ UNCHANGED <<prog, tests, tc, spawned, started, results, splits, analysis>>

\* the loop has run to its end: the call summarises `times` and returns
LoopExit ==
    /\ pc = "loop"
    /\ i >= RepeatCount(prog)
    /\ IF prog = DB /\ times = <<>>
       THEN \* sum(times) / len(times) raises ZeroDivisionError
            /\ pc' = "crashed"
            /\ UNCHANGED <<ret, out>>
       ELSE /\ ret' = [ret EXCEPT ![tc] = Summarise(prog, times)]
            /\ out' = out \o CallLines(prog, tc, Summarise(prog, times))
            /\ pc' = "returned"
    /\ UNCHANGED <<prog, tests, tc, i, times, trials, children, spawned,
                   succeeded, started, results, splits, analysis>>

\* the script handles the returned value and goes on to the next test case
Section ==
    /\ pc = "returned"
    /\ LET avg == ret[tc].average
           iterations == IF prog = DB THEN tests[tc].iterations ELSE 1
       IN  /\ out' = out \o SectionLines(prog, tc, avg, iterations)
           /\ results' = IF prog = DB THEN Collect(results, tc, iterations, avg)
                                      ELSE results
           /\ IF prog = DB /\ Truthy(avg) /\ iterations = 0
              THEN \* avg / iterations raises ZeroDivisionError
                   /\ pc' = "crashed"
                   /\ UNCHANGED <<tc, splits>>
              ELSE /\ splits' = IF prog = DB /\ Truthy(avg)
                                THEN [splits EXCEPT ![tc] = Split(iterations)]
                                ELSE splits
                   /\ IF tc < Len(tests)
                      THEN /\ tc' = tc + 1
                           /\ pc' = "call"
                      ELSE /\ pc' = "epilogue"
                           /\ UNCHANGED tc
    /\ UNCHANGED <<prog, tests, i, times, trials, children, spawned, succeeded,
                   started, ret, analysis>>

\* the closing part of the script: detailed_benchmark.py compares its two
\* results when it has them; every script prints its closing note
Epilogue ==
    /\ pc = "epilogue"
    /\ pc' = "done"
    /\ IF prog = DB /\ Len(results) >= 2
       THEN /\ analysis' = << Compare(results) >>
            /\ out' = out \o << Line("analysis", 0), Line("footer", 0) >>
       ELSE /\ UNCHANGED analysis
            /\ out' = out \o << Line("footer", 0) >>
    /\ UNCHANGED <<prog, tests, tc, i, times, trials, children, spawned,
                   succeeded, started, ret, results, splits>>

Next == Call \/ Spawn \/ ChildExit \/ LoopExit \/ Section \/ Epilogue

\* the scripts as written
Spec == Init /\ [][Next]_vars

\* the scripts with detailed_benchmark.py's iteration counts varied
SpecUnits == InitUnits /\ [][Next]_vars

-----------------------------------------------------------------------------
(* Vocabulary of the properties *)

\* the elapsed times of the successful trials of a trial history, in order
RECURSIVE SuccessfulElapsed(_)
SuccessfulElapsed(tr) ==
    IF tr = <<>> THEN <<>>
    ELSE (IF Head(tr).rc = 0 THEN << Head(tr).elapsed >> ELSE <<>>)
         \o SuccessfulElapsed(Tail(tr))

Failed(tr) == {k \in 1..Len(tr) : tr[k].rc # 0}

\* the script has ended, normally or by an uncaught exception
Terminated == pc \in {"done", "crashed"}

\* the script has handled the value returned for test case t
SectionDone(t) == t < tc \/ pc \in {"epilogue", "done"}

MinInt(a, b) == IF a < b THEN a ELSE b

\* the verdict the Analysis block prints, in the words of the specification:
\* the "no improvement" message is what it prints for equal costs
Reported(verdict) == IF verdict = "speedup" THEN "FASTER" ELSE "UNCHANGED"

\* the three-way verdict with an epsilon
ClaimedDirection(pA, pB, eps) ==
    IF RLess(pB, RSub(pA, eps)) THEN "FASTER"
    ELSE IF RLess(RAdd(pA, eps), pB) THEN "SLOWER"
    ELSE "UNCHANGED"

-----------------------------------------------------------------------------
(* Properties *)

\* C1: when a call of the trial runner returns, the external program was
\* invoked exactly repeatCount times, one outcome was recorded per
\* invocation, and the samples kept are the successful ones of all of them.
C1_AllTrialsRun ==
    pc = "returned" =>
        /\ spawned[tc] = RepeatCount(prog)
        /\ Len(trials) = RepeatCount(prog)
        /\ times = SuccessfulElapsed(trials)

\* C2: test cases are started in list order, and a script that has ended has
\* started the trials of every test case of its list, whatever the outcomes
\* of the earlier ones.
C2_LaterCasesRun ==
    /\ \A k \in 1..Len(started) : started[k] = k
    /\ Len(started) =< Len(tests)
    /\ (Terminated \/ pc = "epilogue") => Len(started) = Len(tests)

\* a finished run in which the first test case had a failed trial and the
\* second one still ran
C2_Witness ==
    /\ pc = "done"
    /\ succeeded[1] < spawned[1]
    /\ started = <<1, 2>>
    /\ spawned[2] > 0

\* C3: in benchmark_runner.py and compare_jit.py, whenever the trials of a
\* returned call include a success, the summary's average is the mean of
\* the successful elapsed times, min and max are their minimum and maximum,
\* and min <= average <= max.
C3_SummaryFromSuccesses ==
    (pc = "returned" /\ prog \in {BR, CJ} /\ SuccessfulElapsed(trials) # <<>>) =>
        LET ok == SuccessfulElapsed(trials)
            s  == ret[tc]
        IN  /\ s.average = Mean(ok)
            /\ s.min = FromInt(MinSeq(ok))
            /\ s.max = FromInt(MaxSeq(ok))
            /\ RLeq(s.min, s.average)
            /\ RLeq(s.average, s.max)

\* C4: a returned call yields no summary exactly when none of its trials
\* succeeded; a summary that is present has a non-zero average, and
\* summarising never faults.
C4_AbsentIffNoSuccess ==
    /\ pc # "crashed"
    /\ pc = "returned" =>
          /\ (ret[tc].average = None) <=> (succeeded[tc] = 0)
          /\ ret[tc].average # None => ~IsZero(ret[tc].average)

\* C5: a run never ends by a fault, and the report of a finished run has,
\* for every test case none of whose trials succeeded, a line that states
\* that there are no successful samples.
C5_NoSamplesStated ==
    /\ pc # "crashed"
    /\ pc = "done" =>
          \A t \in 1..Len(tests) :
              succeeded[t] = 0 =>
                  \E k \in 1..Len(out) : out[k] = Line("no_samples", t)

\* C6: detailed_benchmark.py never faults on a unit count, and for every
\* test case whose section it has printed the split is defined, with
\* warmupUnits = min(totalUnits, threshold) and nativeUnits = totalUnits -
\* warmupUnits.
C6_SplitDefined ==
    prog = DB =>
        /\ pc # "crashed"
        /\ \A t \in 1..Len(tests) :
              (SectionDone(t) /\ Truthy(ret[t].average)) =>
                  LET total  == tests[t].iterations
                      warmup == MinInt(total, Threshold)
                  IN  splits[t] = << [interp_iters |-> warmup,
                                      jit_iters |-> total - warmup] >>

\* C7: for some epsilon, the verdict of every comparison is FASTER exactly
\* when perUnitB < perUnitA - epsilon, SLOWER exactly when perUnitB >
\* perUnitA + epsilon, and UNCHANGED otherwise.
C7_ThreeWayVerdict ==
    analysis # None =>
        \E eps \in EpsilonChoices :
            Reported(analysis[1].verdict) =
                ClaimedDirection(analysis[1].per_iter1, analysis[1].per_iter2, eps)

\* C8: a comparison is computed only when both test cases have a summary
\* from at least one successful trial and a unit count > 0, and its two
\* sides are the averages and unit counts of the first and the second test
\* case, which its two labels name.
C8_ComparisonOnlyWhenValid ==
    analysis # None =>
        LET c == analysis[1]
        IN  /\ c.a = 1
            /\ c.b = 2
            /\ \A t \in {1, 2} :
                  /\ succeeded[t] >= 1
                  /\ ret[t].average # None
                  /\ tests[t].iterations > 0
            /\ c.time1 = ret[1].average
            /\ c.iters1 = tests[1].iterations
            /\ c.time2 = ret[2].average
            /\ c.iters2 = tests[2].iterations

\* a comparison has been computed
C8_Witness == analysis # None /\ pc = "done"

\* C9: whenever the improvement is computed, perUnitA > 0, the two per-unit
\* costs are average / units scaled by one and the same factor, and the
\* improvement is (perUnitA - perUnitB) / perUnitA * 100.
C9_ImprovementWellDefined ==
    (analysis # None /\ analysis[1].improvement # None) =>
        LET c  == analysis[1]
            uA == RDiv(c.time1, FromInt(c.iters1))
            uB == RDiv(c.time2, FromInt(c.iters2))
        IN  /\ RLess(FromInt(0), c.per_iter1)
            /\ RMul(c.per_iter1, uB) = RMul(c.per_iter2, uA)
            /\ c.improvement =
                  RMul(RDiv(RSub(c.per_iter1, c.per_iter2), c.per_iter1), FromInt(100))
            /\ c.improvement = RMul(RDiv(RSub(uA, uB), uA), FromInt(100))

\* an improvement has been computed from two different averages
C9_Witness ==
    /\ analysis # None
    /\ analysis[1].improvement # None
    /\ analysis[1].time1 # analysis[1].time2

\* C10: at most one child process is outstanding, and only while the script
\* is blocked in subprocess.run; every trial spawns exactly one child, and
\* no test case spawns more than repeatCount children.
C10_OneChildAtATime ==
    /\ children \in {0, 1}
    /\ (children = 1) <=> (pc = "wait")
    /\ \A t \in 1..Len(tests) : spawned[t] =< RepeatCount(prog)
    /\ pc \in {"loop", "wait", "returned"} => spawned[tc] = Len(trials) + children
    /\ Len(trials) =< RepeatCount(prog)

\* the child of a trial is running after an earlier trial of the same test
\* case has failed
C10_Witness ==
    /\ pc = "wait"
    /\ children = 1
    /\ Failed(trials) # {}

====
